---- MODULE Spec2Model ----
(***************************************************************************)
(* The manager <-> tools loop of the JQL / SOQL query agents                *)
(* (mcp_jira/agent_generate_jql.py, mcp_salesforce/agent_generate_SOQL.py,  *)
(* mcp_jira/agent_generate_jql_supervisor.py).                              *)
(*                                                                         *)
(* The graph is a LangGraph StateGraph whose single channel "messages" is   *)
(* reduced by add_messages.  The library parts are modelled by what they    *)
(* do to that channel:                                                      *)
(*   - add_messages gives an id to every message that has none, replaces a  *)
(*     left message whose id occurs on the right in place, and appends the  *)
(*     others;                                                              *)
(*   - ToolNode runs the handlers of the last AIMessage's tool calls        *)
(*     concurrently and returns one ToolMessage per call, in call order;    *)
(*     an unknown tool name, arguments that do not validate, and an         *)
(*     exception of the handler each become a ToolMessage status="error"    *)
(*     (handle_tool_errors defaults to True);                               *)
(*   - graph.invoke executes at most recursion_limit supersteps (library    *)
(*     default 25, scaled down here) and raises GraphRecursionError when    *)
(*     the graph still has a node to run after them;                        *)
(*   - the supervisor built by create_supervisor is a react agent: it keeps *)
(*     the prompt out of the state and, when fewer than two steps remain    *)
(*     and the model asked for tools, answers "Sorry, need more steps ..."  *)
(*     instead of raising.                                                  *)
(*                                                                         *)
(* Further specifications: SpecRoute (route_tools on arbitrary              *)
(* conversations), FairSpec (Spec with the fairness of the graph runner),   *)
(* SpecExtract (the extraction of the JSON object from the final content,   *)
(* character by character), SpecConcurrent (several runs on the one         *)
(* module-level graph), SpecRouteState (route_tools on a list, a dict and   *)
(* a dict without messages), SpecExtractOrder (the extraction on texts      *)
(* that hold one object in prose before a fenced one), SpecTools (the MCP   *)
(* tools and tool functions of mcp_jira/main.py, mcp_jira/helpers.py,       *)
(* mcp_salesforce/main.py and mcp_salesforce/helpers.py, each called on     *)
(* its own) and FairSpecTools (SpecTools with the paging loops running to   *)
(* their end).                                                              *)
(***************************************************************************)
EXTENDS Integers, Sequences, FiniteSets, TLC

VARIABLES
    entry,        \* the public entry point that started the run
    messages,     \* state["messages"]
    pc,           \* next node of the graph / position of the entry point
    step,         \* supersteps executed so far
    nextId,       \* next fresh message id
    sent,         \* the message list of the latest llm_with_tools.invoke
    invocations,  \* number of llm_with_tools.invoke calls so far
    results,      \* per tool call of the running tools step: handler outcome
    finished,     \* order in which the handlers of the running step ended
    routed,       \* latest value returned by route_tools
    budget_hit,   \* the step budget ended the run
    handler_runs, \* the executions of tool functions so far, per tool call id
    agent_output, \* the final content handed to the JSON extraction
    concurrent,   \* concurrent runs on the one compiled graph
    frame,        \* a function called on its own: name, arguments, locals
    raised,       \* exception that left the entry point
    result        \* value returned by the entry point

vars == <<entry, messages, pc, step, nextId, sent, invocations, results,
          finished, routed, budget_hit, handler_runs, agent_output,
          concurrent, frame, raised, result>>

----------------------------------------------------------------------------
(* Bounds *)

\* number of tools steps a run may execute before the step budget ends it
MaxToolRounds == 2

\* largest number of tool calls the model puts in one AIMessage
MaxCalls == 2

\* recursion_limit of graph.invoke / stream: no config is passed, so the
\* library default applies, 25 = 2 * 12 + 1 supersteps; scaled down, odd
RecursionLimit == 2 * MaxToolRounds + 1

\* largest number of tool calls the model emits in one run: enough for one
\* call in every invocation the budget allows
MaxToolCalls == MaxToolRounds + 1

----------------------------------------------------------------------------
(* Messages *)

NoId == 0
NoResult == [kind |-> "none", value |-> "none"]
NoOutput == [obj |-> <<>>, wrapping |-> "none", text |-> <<>>]
NoRuns == [state |-> <<>>, answers |-> <<>>, returned |-> <<>>,
           tool_list |-> {}]
NoFrame == [op |-> "none"]
END == "__end__"

Entries == {"jql", "soql", "supervisor"}

Msg(t, i, c, tc, tcid, n, s) ==
    [type |-> t, id |-> i, content |-> c, tool_calls |-> tc,
     tool_call_id |-> tcid, name |-> n, status |-> s]

HumanMessage(i)  == Msg("human", i, "human_input", <<>>, NoId, "", "")
SystemMessage(i) == Msg("system", i, "SYSTEM_PROMPT", <<>>, NoId, "", "")
AIMessage(i, c, tc) == Msg("ai", i, c, tc, NoId, "", "")
ToolMessage(i, c, tcid, n, s) == Msg("tool", i, c, <<>>, tcid, n, s)

\* the registered tools of each agent
tools(e) ==
    CASE e = "jql" -> {"parse_jira_date_tool", "resolve_project_name_tool",
                       "check_jql", "list_issue_type_statuses_tool"}
      [] e = "soql" -> {"parse_salesforce_date_tool", "validate_soql_tool",
                        "list_stage_names_tool", "get_salesforce_field_schema",
                        "list_core_attribute_names_tool",
                        "llm_pick_best_name_matches_tool",
                        "resolve_owner_names_tool"}
      [] OTHER -> {"parse_jira_date_tool", "check_jql",
                   "resolve_project_names_tool", "resolve_types_and_statuses",
                   "think"}

\* the date tool and the validation tool of each agent
DateTool(e) == IF e = "soql" THEN "parse_salesforce_date_tool"
               ELSE "parse_jira_date_tool"
ValidationTool(e) == IF e = "soql" THEN "validate_soql_tool" ELSE "check_jql"

----------------------------------------------------------------------------
(* add_messages *)

HasSystem(msgs) == \E i \in 1..Len(msgs) : msgs[i].type = "system"

CountNoId(msgs) == Cardinality({i \in 1..Len(msgs) : msgs[i].id = NoId})

\* every message without an id gets a fresh one
RECURSIVE assign_ids(_, _)
assign_ids(msgs, n) ==
    IF msgs = <<>> THEN <<>>
    ELSE IF Head(msgs).id = NoId
         THEN <<[Head(msgs) EXCEPT !.id = n]>> \o assign_ids(Tail(msgs), n + 1)
         ELSE <<Head(msgs)>> \o assign_ids(Tail(msgs), n)

IndexOfId(msgs, id) ==
    IF \E i \in 1..Len(msgs) : msgs[i].id = id
    THEN CHOOSE i \in 1..Len(msgs) : msgs[i].id = id
    ELSE 0

\* a right message whose id is already on the left replaces it in place,
\* every other right message is appended
RECURSIVE merge(_, _)
merge(left, right) ==
    IF right = <<>> THEN left
    ELSE LET m == Head(right)
             k == IndexOfId(left, m.id)
         IN merge(IF k = 0 THEN Append(left, m) ELSE [left EXCEPT ![k] = m],
                  Tail(right))

\* variant: a channel without reducer, the update replaces the value
add_messages_overwrite(left, right, n) == assign_ids(right, n)

\* variant: a reducer that appends the update without looking at the ids
add_messages_append(left, right, n) == left \o assign_ids(right, n)

add_messages(left, right, n) == merge(left, assign_ids(right, n))

----------------------------------------------------------------------------
(* The model (external): what one llm_with_tools.invoke may answer *)

\* contents of a final answer: a ```json block with a query, a ```json block
\* with an empty query and a comment, or prose without JSON
FinalContents == {"fenced_json_query", "fenced_json_empty", "prose"}

\* the tool calls the model may ask for; "frobnicate" is in no registry
CallKinds(e) ==
    {[name |-> DateTool(e), args |-> "valid"],
     [name |-> DateTool(e), args |-> "invalid"],
     [name |-> ValidationTool(e), args |-> "valid"],
     [name |-> "frobnicate", args |-> "valid"]}

CallSeqs(e) ==
    UNION {[1..n -> CallKinds(e)] : n \in 1..MaxCalls}

RECURSIVE TotalCalls(_)
TotalCalls(msgs) ==
    IF msgs = <<>> THEN 0
    ELSE Len(Head(msgs).tool_calls) + TotalCalls(Tail(msgs))

ModelOutputs(e, msgs) ==
    {[content |-> c, calls |-> <<>>] : c \in FinalContents}
    \cup {[content |-> "", calls |-> cs] :
            cs \in {x \in CallSeqs(e) :
                      TotalCalls(msgs) + Len(x) <= MaxToolCalls}}

\* the tool_calls of the AIMessage with id a: ids unique over the run
ToolCalls(a, calls) ==
    [i \in 1..Len(calls) |->
        [id |-> a * 10 + i, name |-> calls[i].name, args |-> calls[i].args]]

----------------------------------------------------------------------------
(* route_tools and the step budget *)

\* variant: looks for tool calls in any message, not in the last one
route_tools_any(msgs) ==
    IF \E i \in 1..Len(msgs) :
          msgs[i].type = "ai" /\ Len(msgs[i].tool_calls) > 0
    THEN "tools" ELSE END

route_tools(msgs) ==
    LET ai_message == msgs[Len(msgs)]
    IN IF ai_message.type = "ai" /\ Len(ai_message.tool_calls) > 0
       THEN "tools" ELSE END

\* variant: the budget is compared one step late
AfterBotManager_late(msgs, s) ==
    IF route_tools(msgs) = END THEN "END"
    ELSE IF s > RecursionLimit THEN "out_of_steps"
    ELSE "tools"

\* variant: the conditional edge is followed without looking at the budget
AfterBotManager_unbounded(msgs, s) ==
    IF route_tools(msgs) = END THEN "END" ELSE "tools"

\* graph.invoke: the node that runs after bot_manager has written its update
AfterBotManager(msgs, s) ==
    IF route_tools(msgs) = END THEN "END"
    ELSE IF s >= RecursionLimit THEN "out_of_steps"
    ELSE "tools"

\* variant: the budget ends the run after the tools step that precedes the
\* last bot_manager step the limit allows
AfterTools_early(s) ==
    IF s >= RecursionLimit - 1 THEN "out_of_steps" ELSE "bot_manager"

\* graph.invoke: the node that runs after the tools node (edge tools ->
\* bot_manager)
AfterTools(s) ==
    IF s >= RecursionLimit THEN "out_of_steps" ELSE "bot_manager"

Running(msgs) ==
    [i \in 1..Len(msgs[Len(msgs)].tool_calls) |-> "running"]

----------------------------------------------------------------------------
(* Nodes *)

\* bot_manager of both agents, with the conditional edge that follows it
bot_manager(out) ==
    /\ pc = "bot_manager"
    /\ entry \in {"jql", "soql"}
    /\ LET msgs == IF ~HasSystem(messages)
                   THEN <<SystemMessage(NoId)>> \o messages
                   ELSE messages
           new_message == AIMessage(nextId, out.content,
                                    ToolCalls(nextId, out.calls))
           update == msgs \o <<new_message>>
           merged == add_messages(messages, update, nextId + 1)
       IN /\ sent' = msgs
          /\ messages' = merged
          /\ nextId' = nextId + 1 + CountNoId(update)
          /\ routed' = route_tools(merged)
          /\ pc' = AfterBotManager(merged, step + 1)
          /\ results' = IF route_tools(merged) = "tools"
                        THEN Running(merged) ELSE <<>>
          /\ budget_hit' = (AfterBotManager(merged, step + 1) = "out_of_steps")
    /\ step' = step + 1
    /\ invocations' = invocations + 1
    /\ finished' = <<>>
    /\ UNCHANGED <<frame, concurrent, agent_output, handler_runs, entry,
                   raised, result>>

\* the agent node of the supervisor: the prompt is prepended for the call
\* only, and a request for tools with fewer than two steps left is replaced
call_model(out) ==
    /\ pc = "bot_manager"
    /\ entry = "supervisor"
    /\ LET msgs == <<SystemMessage(NoId)>> \o messages
           more_steps_needed ==
               Len(out.calls) > 0 /\ RecursionLimit - (step + 1) < 2
           response == IF more_steps_needed
                       THEN AIMessage(nextId, "need_more_steps", <<>>)
                       ELSE AIMessage(nextId, out.content,
                                      ToolCalls(nextId, out.calls))
           merged == add_messages(messages, <<response>>, nextId + 1)
       IN /\ sent' = msgs
          /\ messages' = merged
          /\ nextId' = nextId + 1
          /\ routed' = route_tools(merged)
          /\ pc' = AfterBotManager(merged, step + 1)
          /\ results' = IF route_tools(merged) = "tools"
                        THEN Running(merged) ELSE <<>>
          /\ budget_hit' = more_steps_needed
    /\ step' = step + 1
    /\ invocations' = invocations + 1
    /\ finished' = <<>>
    /\ UNCHANGED <<frame, concurrent, agent_output, handler_runs, entry,
                   raised, result>>

\* llm_with_tools.invoke(messages) raises (authentication, network, rate
\* limit): neither bot_manager nor the agent node of the supervisor catches
\* it, the node writes no update and the exception leaves the graph
llm_invoke_raises ==
    /\ pc = "bot_manager"
    /\ sent' = IF entry = "supervisor" \/ ~HasSystem(messages)
               THEN <<SystemMessage(NoId)>> \o messages
               ELSE messages
    /\ invocations' = invocations + 1
    /\ pc' = "invoker_error"
    /\ UNCHANGED <<frame, concurrent, agent_output, handler_runs, entry,
                   messages, step, nextId, results, finished, routed,
                   budget_hit, raised, result>>

\* what a tool function does with valid arguments: returns a value, returns
\* an object that reports an error, or raises
handler(name) ==
    CASE name = "check_jql" -> {"value", "error_value"}
      [] name = "validate_soql_tool" -> {"value", "error_value", "raise"}
      [] OTHER -> {"value", "raise"}

\* ToolNode._run_one: the outcomes of one tool call, looked up in the tool
\* list the node was built with
dispatch(tool_list, call) ==
    IF call.name \notin tool_list THEN {"unknown_tool"}
    ELSE IF call.args = "invalid" THEN {"invalid_args"}
    ELSE handler(call.name)

run_one(e, call) == dispatch(tools(e), call)

\* the ToolMessage ToolNode builds for one call and its outcome
tool_message(call, outcome) ==
    ToolMessage(NoId, outcome, call.id, call.name,
                IF outcome \in {"value", "error_value"}
                THEN "success" ELSE "error")

\* the executions of tool functions are kept as pairs <<tool call id, k>>,
\* k numbering the executions of that id
Executions(runs, id) == Cardinality({x \in runs : x[1] = id})

\* n more executions of the tool function for the tool call id
executed(runs, id, n) ==
    runs \cup {<<id, Executions(runs, id) + k>> : k \in 1..n}

\* variant: a tool function that raised is run a second time
attempts_retry_on_raise(outcome) == IF outcome = "raise" THEN 2 ELSE 1

\* ToolNode runs the tool function of a call once, whatever its outcome; the
\* tools node is added to the graph without a retry policy
attempts(outcome) == 1

\* one handler of the running tools step ends (they run concurrently); the
\* tool function is not entered for an unknown name or invalid arguments
HandlerReturn(i) ==
    /\ pc = "tools"
    /\ i \in 1..Len(results)
    /\ results[i] = "running"
    /\ LET call == messages[Len(messages)].tool_calls[i]
       IN \E o \in run_one(entry, call) :
             /\ results' = [results EXCEPT ![i] = o]
             /\ handler_runs' =
                   IF o \in {"unknown_tool", "invalid_args"}
                   THEN handler_runs
                   ELSE executed(handler_runs, call.id, attempts(o))
    /\ finished' = Append(finished, i)
    /\ UNCHANGED <<frame, concurrent, agent_output, entry, messages, pc, step,
                   nextId, sent, invocations, routed, budget_hit, raised,
                   result>>

\* the request of the validation tool to the Jira / Salesforce server is
\* never answered: the clients are built without timeout and ToolNode sets
\* none, so the tool function does not return
HandlerHangs(i) ==
    /\ pc = "tools"
    /\ i \in 1..Len(results)
    /\ results[i] = "running"
    /\ LET call == messages[Len(messages)].tool_calls[i]
       IN /\ call.name = ValidationTool(entry)
          /\ run_one(entry, call) \cap {"unknown_tool", "invalid_args"} = {}
          /\ handler_runs' = executed(handler_runs, call.id, 1)
    /\ results' = [results EXCEPT ![i] = "hung"]
    /\ UNCHANGED <<frame, concurrent, agent_output, entry, messages, pc, step,
                   nextId, sent, invocations, finished, routed, budget_hit,
                   raised, result>>

\* variant: the ToolMessages in the order in which the handlers ended
outputs_in_finish_order(calls, res, order) ==
    [i \in 1..Len(calls) |-> tool_message(calls[order[i]], res[order[i]])]

\* variant: a call of an unknown tool gets no ToolMessage
outputs_skip_unknown(calls, res, order) ==
    SelectSeq([i \in 1..Len(calls) |-> tool_message(calls[i], res[i])],
              LAMBDA m : m.content # "unknown_tool")

\* the outputs of ToolNode: one ToolMessage per call, in call order,
\* whatever the order in which the handlers ended
outputs(calls, res, order) ==
    [i \in 1..Len(calls) |-> tool_message(calls[i], res[i])]

\* variant: the lookup of an unknown tool name is not caught
handled_registered_only(outcome) == outcome # "unknown_tool"

\* variant: only argument validation errors are caught, an exception of the
\* handler is re-raised
handled_validation_only(outcome) == outcome # "raise"

\* ToolNode(tools=tools): handle_tool_errors keeps its default, every
\* failure of a call is caught and answered
handled(outcome) == TRUE

\* the tools node returns once every handler has ended; a failure that is
\* not handled leaves the node, and the graph, as an exception
tool_node ==
    /\ pc = "tools"
    /\ \A i \in 1..Len(results) : results[i] \notin {"running", "hung"}
    /\ LET calls == messages[Len(messages)].tool_calls
           update == outputs(calls, results, finished)
           caught == \A i \in 1..Len(results) : handled(results[i])
       IN /\ messages' = IF caught
                         THEN add_messages(messages, update, nextId)
                         ELSE messages
          /\ nextId' = IF caught THEN nextId + Len(update) ELSE nextId
          /\ pc' = IF caught THEN AfterTools(step + 1) ELSE "tool_error"
          /\ budget_hit' = (caught /\ AfterTools(step + 1) = "out_of_steps")
    /\ step' = step + 1
    /\ results' = <<>>
    /\ UNCHANGED <<frame, concurrent, agent_output, handler_runs, entry, sent,
                   invocations, finished, routed, raised, result>>

----------------------------------------------------------------------------
(* Entry points *)

\* variant: the first AIMessage of the conversation instead of the last
last_ai_first(msgs) ==
    LET ais == {i \in 1..Len(msgs) : msgs[i].type = "ai"}
    IN msgs[CHOOSE i \in ais : \A j \in ais : i <= j]

\* next(m for m in reversed(messages) if isinstance(m, AIMessage))
last_ai(msgs) ==
    LET ais == {i \in 1..Len(msgs) : msgs[i].type = "ai"}
    IN msgs[CHOOSE i \in ais : \A j \in ais : j <= i]

\* variant: the exception of the model call is swallowed
graph_exception_swallow(p) ==
    CASE p = "out_of_steps" -> "GraphRecursionError"
      [] p = "tool_error" -> "ToolException"
      [] OTHER -> "none"

\* the exception with which graph.invoke / graph.stream ends; no entry
\* point catches it ("InvokerError" stands for the exception of the
\* provider client, which is passed on unchanged)
graph_exception(p) ==
    CASE p = "out_of_steps" -> "GraphRecursionError"
      [] p = "tool_error" -> "ToolException"
      [] p = "invoker_error" -> "InvokerError"
      [] OTHER -> "none"

\* graph.invoke(state): the final state, or the exception of the graph
call_agent_generate_jql ==
    /\ entry = "jql"
    /\ pc \in {"END", "out_of_steps", "tool_error", "invoker_error"}
    /\ raised' = graph_exception(pc)
    /\ result' = IF pc # "END" THEN NoResult
                 ELSE [kind |-> "state", value |-> messages]
    /\ pc' = "returned"
    /\ UNCHANGED <<frame, concurrent, agent_output, handler_runs, entry,
                   messages, step, nextId, sent, invocations, results,
                   finished, routed, budget_hit>>

\* the content of the last AIMessage of the final state
call_agent_generate_soql ==
    /\ entry = "soql"
    /\ pc \in {"END", "out_of_steps", "tool_error", "invoker_error"}
    /\ raised' = graph_exception(pc)
    /\ result' = IF pc # "END" THEN NoResult
                 ELSE [kind |-> "content", value |-> last_ai(messages).content]
    /\ pc' = "returned"
    /\ UNCHANGED <<frame, concurrent, agent_output, handler_runs, entry,
                   messages, step, nextId, sent, invocations, results,
                   finished, routed, budget_hit>>

\* re.findall(r"```json\n(.*?)```", content) then json.loads of the first
\* match; every failure is printed and None is returned
parse_final(content) ==
    IF content \in {"fenced_json_query", "fenced_json_empty"}
    THEN [kind |-> "parsed", value |-> content]
    ELSE [kind |-> "None", value |-> "None"]

ask_agent_to_generate_jql ==
    /\ entry = "supervisor"
    /\ pc \in {"END", "out_of_steps", "tool_error", "invoker_error"}
    /\ raised' = graph_exception(pc)
    /\ result' = IF pc # "END" THEN NoResult
                 ELSE parse_final(last_ai(messages).content)
    /\ pc' = "returned"
    /\ UNCHANGED <<frame, concurrent, agent_output, handler_runs, entry,
                   messages, step, nextId, sent, invocations, results,
                   finished, routed, budget_hit>>

----------------------------------------------------------------------------
(* Specification *)

\* the entry point seeds the state with the HumanMessage; the reducer gives
\* it an id
Init ==
    /\ entry \in Entries
    /\ messages = add_messages(<<>>, <<HumanMessage(NoId)>>, 1)
    /\ pc = "bot_manager"
    /\ step = 0
    /\ nextId = 2
    /\ sent = <<>>
    /\ invocations = 0
    /\ results = <<>>
    /\ finished = <<>>
    /\ routed = "none"
    /\ budget_hit = FALSE
    /\ handler_runs = {}
    /\ agent_output = NoOutput
    /\ concurrent = NoRuns
    /\ frame = NoFrame
    /\ raised = "none"
    /\ result = NoResult

Next ==
    \/ pc = "bot_manager" /\ entry # "supervisor"
         /\ \E out \in ModelOutputs(entry, messages) : bot_manager(out)
    \/ pc = "bot_manager" /\ entry = "supervisor"
         /\ \E out \in ModelOutputs(entry, messages) : call_model(out)
    \/ llm_invoke_raises
    \/ \E i \in 1..MaxCalls : HandlerReturn(i)
    \/ \E i \in 1..MaxCalls : HandlerHangs(i)
    \/ tool_node
    \/ call_agent_generate_jql
    \/ call_agent_generate_soql
    \/ ask_agent_to_generate_jql

Spec == Init /\ [][Next]_vars

\* the step of Next that runs the scheduled node: pc leaves bot_manager, or
\* leaves tools once every handler of the step has returned
RunsNode ==
    \/ /\ pc = "bot_manager"
       /\ pc' \in {"tools", "END", "out_of_steps", "invoker_error"}
    \/ /\ pc = "tools"
       /\ \A i \in 1..Len(results) : results[i] \notin {"running", "hung"}
       /\ pc' \in {"bot_manager", "out_of_steps", "tool_error"}

\* a call of a tool function ends: it returns, raises, or is seen never to
\* return
CallEnds == \E i \in 1..MaxCalls : HandlerReturn(i) \/ HandlerHangs(i)

\* the entry point returns to its caller
Returns ==
    \/ call_agent_generate_jql
    \/ call_agent_generate_soql
    \/ ask_agent_to_generate_jql

\* graph.invoke runs the scheduled node whenever there is one (the model call
\* of bot_manager returns or raises), ToolNode waits for every handler, and
\* the entry point returns when the graph has ended
FairSpec ==
    Spec /\ WF_pc(RunsNode) /\ WF_vars(CallEnds) /\ WF_vars(Returns)

----------------------------------------------------------------------------
(* route_tools on arbitrary conversations *)

\* longest conversation handed to route_tools
MaxRouteLen == 3

RouteMessages ==
    {HumanMessage(1), SystemMessage(2), ToolMessage(3, "value", 41, "check_jql",
                                                    "success"),
     AIMessage(4, "prose", <<>>),
     AIMessage(4, "", ToolCalls(4, <<[name |-> "check_jql", args |-> "valid"]>>)),
     AIMessage(4, "", ToolCalls(4, <<[name |-> "check_jql", args |-> "valid"],
                                     [name |-> "frobnicate", args |-> "valid"]>>))}

InitRoute ==
    /\ entry \in {"jql", "soql"}
    /\ messages \in UNION {[1..n -> RouteMessages] : n \in 1..MaxRouteLen}
    /\ pc = "route_tools"
    /\ step = 0
    /\ nextId = 5
    /\ sent = <<>>
    /\ invocations = 0
    /\ results = <<>>
    /\ finished = <<>>
    /\ routed = "none"
    /\ budget_hit = FALSE
    /\ handler_runs = {}
    /\ agent_output = NoOutput
    /\ concurrent = NoRuns
    /\ frame = NoFrame
    /\ raised = "none"
    /\ result = NoResult

RouteStep ==
    /\ pc = "route_tools"
    /\ routed' = route_tools(messages)
    /\ pc' = "routed"
    /\ UNCHANGED <<frame, concurrent, agent_output, handler_runs, entry,
                   messages, step, nextId, sent, invocations, results,
                   finished, budget_hit, raised, result>>

SpecRoute == InitRoute /\ [][RouteStep]_vars

----------------------------------------------------------------------------
(* route_tools on every form of input state *)

\* The argument of route_tools: a list of messages, a dict with a "messages"
\* key, or a dict without one.
RouteStates ==
    {[form |-> f, messages |-> m] :
        f \in {"list", "dict"},
        m \in UNION {[1..n -> RouteMessages] : n \in 0..MaxRouteLen}}
    \cup {[form |-> "dict_without_messages", messages |-> <<>>]}

\* state.get("messages", [])
get_messages(state) ==
    IF state.form = "dict_without_messages" THEN <<>> ELSE state.messages

\* variant: an input without messages is routed to the end
route_tools_state_lenient(state) ==
    IF get_messages(state) = <<>>
    THEN [raised |-> "none", routed |-> END]
    ELSE [raised |-> "none", routed |-> route_tools(get_messages(state))]

\* route_tools from its first line: the outcome is the value returned or the
\* exception that leaves the function
route_tools_state(state) ==
    IF state.form = "list"
    THEN IF state.messages = <<>>
         THEN [raised |-> "IndexError", routed |-> "none"]
         ELSE [raised |-> "none", routed |-> route_tools(state.messages)]
    ELSE IF get_messages(state) # <<>>
    THEN [raised |-> "none", routed |-> route_tools(get_messages(state))]
    ELSE [raised |-> "ValueError", routed |-> "none"]

RouteFrames == {[op |-> "route_tools", state |-> s] : s \in RouteStates}

InitRouteState ==
    /\ frame \in RouteFrames
    /\ entry \in {"jql", "soql"}
    /\ messages = <<>>
    /\ pc = "call"
    /\ step = 0
    /\ nextId = 1
    /\ sent = <<>>
    /\ invocations = 0
    /\ results = <<>>
    /\ finished = <<>>
    /\ routed = "none"
    /\ budget_hit = FALSE
    /\ handler_runs = {}
    /\ agent_output = NoOutput
    /\ concurrent = NoRuns
    /\ raised = "none"
    /\ result = NoResult

RouteStateStep ==
    /\ pc = "call"
    /\ frame.op = "route_tools"
    /\ routed' = route_tools_state(frame.state).routed
    /\ raised' = route_tools_state(frame.state).raised
    /\ pc' = IF route_tools_state(frame.state).raised = "none"
             THEN "returned" ELSE "raised"
    /\ UNCHANGED <<frame, concurrent, agent_output, handler_runs, entry,
                   messages, step, nextId, sent, invocations, results,
                   finished, budget_hit, result>>

SpecRouteState == InitRouteState /\ [][RouteStateStep]_vars

----------------------------------------------------------------------------
(* JSON text *)

\* A text is a sequence of characters.  The fence ``` and the word json are
\* one element each: their characters occur nowhere else in the texts below.
\* The texts hold no backslash and no '<', so that a string ends at the next
\* quote and the tag-stripping re.sub of the test helper changes nothing.

\* longest string value of a JSON object
MaxStrLen == 2

Quote == "\""
\* the fence of a code block, three backticks
Fence == "fence"
Whitespace == {" ", "\n"}

StrValues == UNION {[1..n -> {"a", "{", "}"}] : n \in 0..MaxStrLen}

\* an object is a sequence of <<key, value>> pairs; a value is a string or
\* an object
Str(v) == [t |-> "str", v |-> v]
Obj(o) == [t |-> "obj", v |-> o]
FlatObjects == {<<>>} \cup {<< <<(<<"k">>), Str(v)>> >> : v \in StrValues}
Objects == FlatObjects \cup {<< <<(<<"k">>), Obj(o)>> >> : o \in FlatObjects}

\* json.dumps(O) with the default separators ", " and ": "
RECURSIVE json_dumps(_)
json_dumps_value(x) ==
    IF x.t = "str" THEN <<Quote>> \o x.v \o <<Quote>> ELSE json_dumps(x.v)

RECURSIVE json_dumps_members(_)
json_dumps_members(o) ==
    IF o = <<>> THEN <<>>
    ELSE <<Quote>> \o Head(o)[1] \o <<Quote, ":", " ">>
         \o json_dumps_value(Head(o)[2])
         \o (IF Tail(o) = <<>> THEN <<>> ELSE <<",", " ">>)
         \o json_dumps_members(Tail(o))

json_dumps(o) == <<"{">> \o json_dumps_members(o) \o <<"}">>

Min(S) == CHOOSE x \in S : \A y \in S : x <= y

\* the first position from i on that holds no whitespace
skip_ws(s, i) ==
    LET J == {j \in i..Len(s) : s[j] \notin Whitespace}
    IN IF J = {} THEN Len(s) + 1 ELSE Min(J)

Failed == [ok |-> FALSE, val |-> <<>>, pos |-> 0]

\* the decoder of a string that starts at the quote s[i]; a raw newline
\* inside a string is rejected
parse_string(s, i) ==
    LET J == {j \in (i + 1)..Len(s) : s[j] = Quote}
    IN IF J = {} THEN Failed
       ELSE IF \E j \in (i + 1)..(Min(J) - 1) : s[j] = "\n" THEN Failed
       ELSE [ok |-> TRUE, val |-> SubSeq(s, i + 1, Min(J) - 1),
             pos |-> Min(J) + 1]

RECURSIVE parse_value(_, _)
RECURSIVE parse_members(_, _)

\* the members of an object from the key at s[i] to the closing brace
parse_members(s, i) ==
    IF i > Len(s) \/ s[i] # Quote THEN Failed
    ELSE LET key == parse_string(s, i)
             c == skip_ws(s, key.pos)
         IN IF ~key.ok \/ c > Len(s) \/ s[c] # ":" THEN Failed
            ELSE LET val == parse_value(s, skip_ws(s, c + 1))
                     e == skip_ws(s, val.pos)
                 IN IF ~val.ok \/ e > Len(s) THEN Failed
                    ELSE IF s[e] = "}"
                    THEN [ok |-> TRUE, val |-> << <<key.val, val.val>> >>,
                          pos |-> e + 1]
                    ELSE IF s[e] # "," THEN Failed
                    ELSE LET rest == parse_members(s, skip_ws(s, e + 1))
                         IN IF ~rest.ok THEN Failed
                            ELSE [ok |-> TRUE,
                                  val |-> << <<key.val, val.val>> >>
                                          \o rest.val,
                                  pos |-> rest.pos]

\* the decoder of the value that starts at s[i]: a string or an object (the
\* texts hold no number and no literal)
parse_value(s, i) ==
    IF i > Len(s) THEN Failed
    ELSE IF s[i] = Quote
    THEN LET r == parse_string(s, i)
         IN IF r.ok THEN [r EXCEPT !.val = Str(r.val)] ELSE Failed
    ELSE IF s[i] = "{"
    THEN LET j == skip_ws(s, i + 1)
         IN IF j > Len(s) THEN Failed
            ELSE IF s[j] = "}"
            THEN [ok |-> TRUE, val |-> Obj(<<>>), pos |-> j + 1]
            ELSE LET r == parse_members(s, j)
                 IN IF r.ok THEN [r EXCEPT !.val = Obj(r.val)] ELSE Failed
    ELSE Failed

\* json.loads(s): one value between optional whitespace, nothing after it
json_loads(s) ==
    LET r == parse_value(s, skip_ws(s, 1))
    IN IF r.ok /\ skip_ws(s, r.pos) = Len(s) + 1
       THEN [ok |-> TRUE, val |-> r.val]
       ELSE [ok |-> FALSE, val |-> <<>>]

----------------------------------------------------------------------------
(* Extraction of the JSON object from the final content *)

Max(S) == CHOOSE x \in S : \A y \in S : y <= x

\* str.strip()
strip(s) ==
    LET J == {j \in 1..Len(s) : s[j] \notin Whitespace}
    IN IF J = {} THEN <<>> ELSE SubSeq(s, Min(J), Max(J))

\* re.sub(r"^```(?:json)?\s*", "", s) then re.sub(r"\s*```$", "", s), for a
\* text that starts with the fence
peel_fence(s) ==
    LET a == IF Len(s) >= 2 /\ s[2] = "json" THEN 3 ELSE 2
        t == SubSeq(s, skip_ws(s, a), Len(s))
        J == {j \in 1..Len(t) : \A i \in j..(Len(t) - 1) : t[i] \in Whitespace}
    IN IF t # <<>> /\ t[Len(t)] = Fence THEN SubSeq(t, 1, Min(J) - 1) ELSE t

\* s.find("{"), 0 for -1
find_brace(s) ==
    LET J == {j \in 1..Len(s) : s[j] = "{"}
    IN IF J = {} THEN 0 ELSE Min(J)

\* depth after the character at i in the scan that starts at start: every
\* '{' counts up and every '}' counts down, inside strings as well
depth(s, start, i) ==
    Cardinality({j \in start..i : s[j] = "{"})
    - Cardinality({j \in start..i : s[j] = "}"})

\* the position of the '}' at which the scan breaks, 0 when end stays None
scan_end(s, start) ==
    LET J == {i \in start..Len(s) : s[i] = "}" /\ depth(s, start, i) = 0}
    IN IF J = {} THEN 0 ELSE Min(J)

\* s[start:end] of the scan, <<>> when the scan finds no span
balanced_span(s) ==
    IF find_brace(s) = 0 \/ scan_end(s, find_brace(s)) = 0 THEN <<>>
    ELSE SubSeq(s, find_brace(s), scan_end(s, find_brace(s)))

Raise(e) == [raised |-> e, result |-> NoResult]
Return(v) == [raised |-> "none", result |-> v]

\* _extract_json_from_agent for a str
extract_json_from_agent(last_content) ==
    LET s0 == strip(last_content)
        s == IF s0 # <<>> /\ s0[1] = Fence THEN peel_fence(s0) ELSE s0
    IN IF json_loads(s).ok
       THEN Return([kind |-> "parsed", value |-> json_loads(s).val])
       ELSE IF find_brace(s) = 0 THEN Raise("ValueError")
       ELSE IF scan_end(s, find_brace(s)) = 0 THEN Raise("ValueError")
       ELSE IF json_loads(balanced_span(s)).ok
       THEN Return([kind |-> "parsed",
                    value |-> json_loads(balanced_span(s)).val])
       ELSE Raise("JSONDecodeError")

\* re.findall(r"```json\n(.*?)```", content, re.DOTALL): the first group,
\* with found = FALSE when there is no match
json_blocks(content) ==
    LET P == {p \in 1..(Len(content) - 2) :
                /\ content[p] = Fence /\ content[p + 1] = "json"
                /\ content[p + 2] = "\n"
                /\ \E q \in (p + 3)..Len(content) : content[q] = Fence}
    IN IF P = {} THEN [found |-> FALSE, block |-> <<>>]
       ELSE LET p == Min(P)
                q == Min({q \in (p + 3)..Len(content) : content[q] = Fence})
            IN [found |-> TRUE, block |-> SubSeq(content, p + 3, q - 1)]

\* the try block of ask_agent_to_generate_jql on a str content: the ValueError
\* of a missing block and the error of json.loads are caught, None is
\* returned
parse_final_content(content) ==
    LET m == json_blocks(content)
    IN IF m.found /\ json_loads(strip(m.block)).ok
       THEN Return([kind |-> "parsed",
                    value |-> json_loads(strip(m.block)).val])
       ELSE Return([kind |-> "None", value |-> "None"])

\* the serialisation of an object as the model may present it
Wrappings == {"bare", "fenced", "prose"}

wrap(w, t) ==
    CASE w = "bare" -> t
      [] w = "fenced" -> <<Fence, "json", "\n">> \o t \o <<"\n", Fence>>
      [] OTHER -> <<"x", " ">> \o t \o <<" ", "x">>

AgentOutputs ==
    {[obj |-> o, wrapping |-> w, text |-> wrap(w, json_dumps(o))] :
        o \in Objects, w \in Wrappings}

InitExtract ==
    /\ entry \in {"soql", "supervisor"}
    /\ agent_output \in AgentOutputs
    /\ concurrent = NoRuns
    /\ messages = <<>>
    /\ pc = "extract"
    /\ step = 0
    /\ nextId = 1
    /\ sent = <<>>
    /\ invocations = 0
    /\ results = <<>>
    /\ finished = <<>>
    /\ routed = "none"
    /\ budget_hit = FALSE
    /\ handler_runs = {}
    /\ frame = NoFrame
    /\ raised = "none"
    /\ result = NoResult

\* the test helper of the SOQL agent extracts from the agent's output
ExtractHelper ==
    /\ pc = "extract"
    /\ entry = "soql"
    /\ raised' = extract_json_from_agent(agent_output.text).raised
    /\ result' = extract_json_from_agent(agent_output.text).result
    /\ pc' = "extracted"
    /\ UNCHANGED <<frame, concurrent, agent_output, handler_runs, entry,
                   messages, step, nextId, sent, invocations, results,
                   finished, routed, budget_hit>>

\* ask_agent_to_generate_jql extracts from the supervisor's final response
ExtractSupervisor ==
    /\ pc = "extract"
    /\ entry = "supervisor"
    /\ raised' = parse_final_content(agent_output.text).raised
    /\ result' = parse_final_content(agent_output.text).result
    /\ pc' = "extracted"
    /\ UNCHANGED <<frame, concurrent, agent_output, handler_runs, entry,
                   messages, step, nextId, sent, invocations, results,
                   finished, routed, budget_hit>>

NextExtract == ExtractHelper \/ ExtractSupervisor

SpecExtract == InitExtract /\ [][NextExtract]_vars

\* final contents that offer more than one place to extract from: objects
\* whose strings hold no brace, bare, in a fenced block (at the start, inside
\* prose, or after prose that holds another object) or between prose
PlainFlatObjects ==
    {<<>>} \cup {<< <<(<<"k">>), Str(v)>> >> : v \in {<<>>, <<"a">>}}
PlainObjects ==
    PlainFlatObjects
    \cup {<< <<(<<"k">>), Obj(o)>> >> : o \in PlainFlatObjects}

OrderWrappings ==
    {"bare", "fenced", "prose", "fence_in_prose", "fence_after_span"}

order_wrap(w, earlier, t) ==
    CASE w = "fence_in_prose" ->
            <<"x", " ">> \o wrap("fenced", t) \o <<" ", "x">>
      [] w = "fence_after_span" ->
            <<"x", " ">> \o json_dumps(earlier) \o <<" ">>
            \o wrap("fenced", t)
      [] OTHER -> wrap(w, t)

OrderedOutputs ==
    {[obj |-> o, earlier |-> e, wrapping |-> w,
      text |-> order_wrap(w, e, json_dumps(o))] :
        o \in PlainObjects, e \in PlainObjects, w \in OrderWrappings}

InitExtractOrder ==
    /\ entry \in {"soql", "supervisor"}
    /\ agent_output \in {x \in OrderedOutputs :
                            IF x.wrapping = "fence_after_span"
                            THEN x.earlier # x.obj ELSE x.earlier = <<>>}
    /\ concurrent = NoRuns
    /\ messages = <<>>
    /\ pc = "extract"
    /\ step = 0
    /\ nextId = 1
    /\ sent = <<>>
    /\ invocations = 0
    /\ results = <<>>
    /\ finished = <<>>
    /\ routed = "none"
    /\ budget_hit = FALSE
    /\ handler_runs = {}
    /\ frame = NoFrame
    /\ raised = "none"
    /\ result = NoResult

SpecExtractOrder == InitExtractOrder /\ [][NextExtract]_vars

----------------------------------------------------------------------------
(* Concurrent runs on the module-level graph *)

\* number of runs that execute concurrently
NumRuns == 2

RunIds == 1..NumRuns

\* message ids are UUIDs: the ids of different runs never collide
FirstId(r) == r * 100 + 1

\* variant: the state of the graph is kept in one place for all runs
channel_shared(r) == 1

\* the state a run works on: call_agent_generate_* builds a new state for
\* every call and the graph is compiled without checkpointer, so graph.invoke
\* keeps the channels and the step counter of every call apart
channel(r) == r

\* the state of the graph at the start of a run: the HumanMessage
start_state(r) ==
    [messages |-> add_messages(<<>>, <<HumanMessage(NoId)>>, FirstId(r)),
     pc |-> "bot_manager", step |-> 0, nextId |-> FirstId(r) + 1]

\* bot_manager and the edge after it, on the state st
manager_step(st, out) ==
    LET msgs == IF ~HasSystem(st.messages)
                THEN <<SystemMessage(NoId)>> \o st.messages
                ELSE st.messages
        new_message == AIMessage(st.nextId, out.content,
                                 ToolCalls(st.nextId, out.calls))
        update == msgs \o <<new_message>>
        merged == add_messages(st.messages, update, st.nextId + 1)
    IN [messages |-> merged,
        pc |-> AfterBotManager(merged, st.step + 1),
        step |-> st.step + 1,
        nextId |-> st.nextId + 1 + CountNoId(update)]

\* the tools node and the edge after it, on the state st, for the outcomes
\* res of the handlers
tools_step(st, res) ==
    LET calls == st.messages[Len(st.messages)].tool_calls
        update == outputs(calls, res, [i \in 1..Len(calls) |-> i])
    IN [messages |-> add_messages(st.messages, update, st.nextId),
        pc |-> AfterTools(st.step + 1),
        step |-> st.step + 1,
        nextId |-> st.nextId + Len(update)]

\* what the entry point hands to its caller for the final state st
entry_result(e, st) ==
    IF st.pc # "END"
    THEN [raised |-> graph_exception(st.pc), result |-> NoResult]
    ELSE [raised |-> "none",
          result |-> IF e = "jql"
                     THEN [kind |-> "state", value |-> st.messages]
                     ELSE [kind |-> "content",
                           value |-> last_ai(st.messages).content]]

\* the model answers of the concurrent runs: a final answer, or once per run
\* a request for the validation tool or for an unknown tool
ConcurrentOutputs(e, msgs) ==
    {[content |-> c, calls |-> <<>>] :
        c \in {"fenced_json_query", "prose"}}
    \cup {[content |-> "", calls |-> <<k>>] :
            k \in {x \in {[name |-> ValidationTool(e), args |-> "valid"],
                           [name |-> "frobnicate", args |-> "valid"]} :
                     TotalCalls(msgs) = 0}}

\* the outcomes of the handlers of the calls, one per call
Outcomes(tool_list, calls) ==
    {res \in [1..Len(calls) -> {"value", "error_value", "raise",
                                "unknown_tool", "invalid_args"}] :
        \A i \in 1..Len(calls) : res[i] \in dispatch(tool_list, calls[i])}

Pending == [raised |-> "pending", result |-> NoResult]

InitConcurrent ==
    /\ entry \in {"jql", "soql"}
    /\ concurrent = [state |-> [r \in RunIds |-> start_state(r)],
                     answers |-> [r \in RunIds |-> <<>>],
                     returned |-> [r \in RunIds |-> Pending],
                     tool_list |-> tools(entry)]
    /\ agent_output = NoOutput
    /\ messages = <<>>
    /\ pc = "concurrent"
    /\ step = 0
    /\ nextId = 1
    /\ sent = <<>>
    /\ invocations = 0
    /\ results = <<>>
    /\ finished = <<>>
    /\ routed = "none"
    /\ budget_hit = FALSE
    /\ handler_runs = {}
    /\ frame = NoFrame
    /\ raised = "none"
    /\ result = NoResult

single_run_vars ==
    <<entry, messages, pc, step, nextId, sent, invocations, results, finished,
      routed, budget_hit, handler_runs, agent_output, frame, raised,
      result>>

\* run r executes bot_manager with the model answer out
RunBotManager(r, out) ==
    LET c == channel(r)
    IN /\ concurrent.returned[r] = Pending
       /\ concurrent.state[c].pc = "bot_manager"
       /\ concurrent' =
             [concurrent EXCEPT
                 !.state[c] = manager_step(concurrent.state[c], out),
                 !.answers[r] = Append(@, out)]
       /\ UNCHANGED single_run_vars

\* run r executes the tools node, the handlers ending with the outcomes res
RunTools(r, res) ==
    LET c == channel(r)
    IN /\ concurrent.returned[r] = Pending
       /\ concurrent.state[c].pc = "tools"
       /\ concurrent' =
             [concurrent EXCEPT
                 !.state[c] = tools_step(concurrent.state[c], res),
                 !.answers[r] = Append(@, res)]
       /\ UNCHANGED single_run_vars

\* the entry point of run r returns
RunReturns(r) ==
    LET c == channel(r)
    IN /\ concurrent.returned[r] = Pending
       /\ concurrent.state[c].pc \in {"END", "out_of_steps"}
       /\ concurrent' =
             [concurrent EXCEPT
                 !.returned[r] = entry_result(entry, concurrent.state[c])]
       /\ UNCHANGED single_run_vars

NextConcurrent ==
    \/ \E r \in RunIds :
          \E out \in ConcurrentOutputs(entry,
                        concurrent.state[channel(r)].messages) :
             RunBotManager(r, out)
    \/ \E r \in RunIds :
          \E res \in Outcomes(concurrent.tool_list,
                       LET m == concurrent.state[channel(r)].messages
                       IN m[Len(m)].tool_calls) :
             RunTools(r, res)
    \/ \E r \in RunIds : RunReturns(r)

SpecConcurrent == InitConcurrent /\ [][NextConcurrent]_vars

\* the state of a run that executes alone and gets the answers a, in order
RECURSIVE Alone(_, _)
Alone(st, a) ==
    IF a = <<>> THEN st
    ELSE Alone(IF st.pc = "bot_manager" THEN manager_step(st, Head(a))
               ELSE tools_step(st, Head(a)),
               Tail(a))

----------------------------------------------------------------------------
(* The MCP tools and the tool functions, each called on its own *)

\* the variables of the graph run, which a tool called on its own leaves alone
graph_vars ==
    <<entry, messages, step, nextId, sent, invocations, results, finished,
      routed, budget_hit, handler_runs, agent_output, concurrent>>

\* the value of a function that ends without a return statement
None == [kind |-> "None", value |-> "None"]

\* requests of callers of generate_jql_from_input
Requests ==
    {"open high priority tickets", "bugs of last month", "tickets of ACME"}

\* what _generate_jql_from_input finds around it: whether a project passes
\* the filters, whether the answer of call_nova_lite holds a JSON object, and
\* the count of _approximate_jira_issue_count (-1 stands for its error)
JqlEnvironments ==
    [projects : {"none", "some"}, response : {"json", "no_json"},
     count : {-1, 0, 3}]

\* _generate_jql_from_input(user_input, category_filter, exclude_projects):
\* the prompt is built from user_input, and the query and the comment are
\* those of the model's answer to that prompt
_generate_jql_from_input(user_input, env) ==
    IF env.projects = "none" THEN Raise("ValueError")
    ELSE IF env.response = "no_json" THEN Raise("ValueError")
    ELSE Return([kind |-> "dict",
                 value |-> [jql |-> <<"jql for", user_input>>,
                            approx_query_results |-> env.count,
                            comment |-> <<"comment on", user_input>>]])

\* the user_input that main.py hands to _generate_jql_from_input
helper_input(user_input) == "open high priority tickets"

\* the MCP tool generate_jql_from_input(user_input): it assigns the value of
\* the helper to a local and ends without a return statement
generate_jql_from_input(env) ==
    /\ pc = "call"
    /\ frame.op = "generate_jql_from_input"
    /\ LET r == _generate_jql_from_input(helper_input(frame.user_input), env)
       IN /\ frame' = [frame EXCEPT
                          !.prompted = helper_input(frame.user_input),
                          !.local_result = r.result]
          /\ raised' = r.raised
          /\ result' = IF r.raised # "none" THEN NoResult ELSE None
    /\ pc' = "returned"
    /\ UNCHANGED graph_vars

GenerateJqlFrames ==
    {[op |-> "generate_jql_from_input", user_input |-> q, prompted |-> "none",
      local_result |-> NoResult] : q \in Requests}

\* runs of the SOQL graph as call_agent_generate_soql sees them: the answers
\* of the model and of the tools, in order (a final answer at once, or after
\* one round of the validation tool), or the exception of the graph
SoqlAnswers ==
    {<<[content |-> c, calls |-> <<>>]>> : c \in FinalContents}
    \cup {<<[content |-> "",
             calls |-> <<[name |-> "validate_soql_tool", args |-> "valid"]>>],
            <<r>>, [content |-> c, calls |-> <<>>]>> :
             r \in {"value", "error_value"}, c \in FinalContents}

SoqlRuns ==
    {[raised |-> "none", answers |-> a] : a \in SoqlAnswers}
    \cup {[raised |-> e, answers |-> <<>>] :
            e \in {"GraphRecursionError", "InvokerError"}}

\* the values graph.stream(state, stream_mode="values") yields: the state
\* after the input and after every step
stream_values(answers) ==
    [k \in 1..(Len(answers) + 1) |->
        Alone(start_state(1), SubSeq(answers, 1, k - 1))]

\* _trace_as_text(state): a header line and one entry per message
_trace_as_text(state) ==
    <<"Conversation Trace">>
    \o [i \in 1..Len(state.messages) |-> state.messages[i].type]

RECURSIVE join(_)
join(chunks) ==
    IF chunks = <<>> THEN <<>>
    ELSE IF Len(chunks) = 1 THEN Head(chunks)
    ELSE Head(chunks) \o <<"\n">> \o join(Tail(chunks))

\* trace_text of call_agent_generate_soql; "" when no trace is asked for
trace_text(stream, with_trace, answers) ==
    LET values == stream_values(answers)
    IN IF ~with_trace THEN ""
       ELSE IF stream
       THEN join([k \in 1..Len(values) |-> _trace_as_text(values[k])])
       ELSE _trace_as_text(values[Len(values)])

\* variant: the bare content unless both flags are set
soql_return_bare(output, trace, final_state, with_trace, return_state) ==
    IF ~with_trace \/ ~return_state
    THEN [kind |-> "content", value |-> output]
    ELSE [kind |-> "dict",
          value |-> [output |-> output, trace |-> trace,
                     state |-> IF return_state THEN final_state ELSE None]]

\* the two return statements of call_agent_generate_soql
soql_return(output, trace, final_state, with_trace, return_state) ==
    IF ~with_trace /\ ~return_state
    THEN [kind |-> "content", value |-> output]
    ELSE [kind |-> "dict",
          value |-> [output |-> output, trace |-> trace,
                     state |-> IF return_state THEN final_state ELSE None]]

\* call_agent_generate_soql(human_input, stream=, with_trace=,
\* return_state=) around one run of the graph
call_agent_generate_soql_flags(run) ==
    /\ pc = "call"
    /\ frame.op = "call_agent_generate_soql"
    /\ IF run.raised # "none"
       THEN /\ frame' = frame
            /\ raised' = run.raised
            /\ result' = NoResult
       ELSE LET values == stream_values(run.answers)
                final_state == [messages |-> values[Len(values)].messages]
                output == last_ai(final_state.messages).content
            IN /\ frame' = [frame EXCEPT !.final_state = final_state]
               /\ raised' = "none"
               /\ result' = soql_return(output,
                                trace_text(frame.stream, frame.with_trace,
                                           run.answers),
                                final_state, frame.with_trace,
                                frame.return_state)
    /\ pc' = "returned"
    /\ UNCHANGED graph_vars

SoqlEntryFrames ==
    {[op |-> "call_agent_generate_soql", stream |-> s, with_trace |-> t,
      return_state |-> r, final_state |-> None] :
        s \in BOOLEAN, t \in BOOLEAN, r \in BOOLEAN}

\* queries handed to check_jql
Jqls == {"project = PROJ", "projct = PROJ AND", ""}

\* check_jql(jql): the count of jira.approximate_issue_count, or its
\* exception as a value
check_jql(jql, server) ==
    IF server = "rejects"
    THEN Return([kind |-> "dict",
                 value |-> [error |-> "JIRAError", jql |-> jql]])
    ELSE Return([kind |-> "dict",
                 value |-> [jql |-> jql, approximate_count |-> 3]])

\* the @tool check_jql of agent_generate_jql.py and of
\* agent_generate_jql_supervisor.py (the same code)
CheckJql(server) ==
    /\ pc = "call"
    /\ frame.op = "check_jql"
    /\ frame' = [frame EXCEPT !.server = server]
    /\ raised' = check_jql(frame.jql, server).raised
    /\ result' = check_jql(frame.jql, server).result
    /\ pc' = "returned"
    /\ UNCHANGED graph_vars

CheckJqlFrames ==
    {[op |-> "check_jql", module |-> m, jql |-> q, server |-> "none"] :
        m \in {"agent_generate_jql", "agent_generate_jql_supervisor"},
        q \in Jqls}

\* queries handed to validate_soql_tool, as the pieces the tool looks at:
\* the select with its object, white space, and clauses
Soqls ==
    {<<"SELECT Id FROM Account">>,
     <<"SELECT Id FROM Account", " ">>,
     <<"SELECT Id FROM Account", " ", "LIMIT 5">>,
     <<"SELECT Id FROM Account", " ", "WHERE Nme = 1">>,
     <<"SELECT Id FROM Account", " ", "WHERE Name = 1", " ", "GROUP BY Name">>,
     <<"SELEC Id">>}

RECURSIVE rstrip(_)
rstrip(soql) ==
    IF soql = <<>> THEN <<>>
    ELSE IF soql[Len(soql)] = " " THEN rstrip(SubSeq(soql, 1, Len(soql) - 1))
    ELSE soql

\* re.search(r"\blimit\s+\d+\b", soql, re.IGNORECASE)
has_limit(soql) == \E i \in 1..Len(soql) : soql[i] = "LIMIT 5"

\* the query that is sent to validate soql
test_query(soql) ==
    IF has_limit(soql) THEN soql ELSE rstrip(soql) \o <<" ", "LIMIT 1">>

\* re.match(r"^\s*select\s+.+?\s+from\s+([a-zA-Z0-9_]+)\s*(where\s+.+?)?
\* (order\s+by\s+.+?)?$", soql): a select, then nothing or a where clause
\* with whatever follows it
simple_match(soql) ==
    /\ soql # <<>>
    /\ soql[1] = "SELECT Id FROM Account"
    /\ \/ rstrip(soql) = <<soql[1]>>
       \/ Len(soql) >= 3 /\ soql[2] = " " /\ soql[3] \in {"WHERE Nme = 1",
                                                          "WHERE Name = 1"}

\* " group by " in soql.lower()
has_group_by(soql) == \E i \in 1..Len(soql) : soql[i] = "GROUP BY Name"

\* what validate_soql_tool finds around it: the login of get_sf_connection,
\* the answer to the test query and the answer to the COUNT() query
SoqlServers ==
    [login : {"ok", "fails"},
     sample : {"records", "empty", "malformed", "error"},
     count : {"total", "no_total", "malformed", "error"}]

\* variant: the query that was sent is reported instead of the input
soql_validation_sent(soql, valid, sample, count, error) ==
    [kind |-> "dict",
     value |-> [soql |-> test_query(soql), valid |-> valid, sample |-> sample,
                count |-> count, error |-> error]]

\* the dict of validate_soql_tool
soql_validation(soql, valid, sample, count, error) ==
    [kind |-> "dict",
     value |-> [soql |-> soql, valid |-> valid, sample |-> sample,
                count |-> count, error |-> error]]

\* validate_soql_tool(soql): get_sf_connection runs before the try block,
\* the two queries inside it
validate_soql_tool(soql, server) ==
    LET counted == simple_match(soql) /\ ~has_group_by(soql)
        malformed == soql_validation(soql, FALSE, None, None,
                        [kind |-> "str", value |-> "MALFORMED_QUERY: ..."])
        failed == soql_validation(soql, FALSE, None, None,
                        [kind |-> "str", value |-> "str(e)"])
    IN IF server.login = "fails"
       THEN Raise("SalesforceAuthenticationFailed")
       ELSE IF server.sample = "malformed" THEN Return(malformed)
       ELSE IF server.sample = "error" THEN Return(failed)
       ELSE IF counted /\ server.count = "malformed" THEN Return(malformed)
       ELSE IF counted /\ server.count = "error" THEN Return(failed)
       ELSE Return(soql_validation(soql, TRUE,
                IF server.sample = "records"
                THEN [kind |-> "dict", value |-> "records[0]"] ELSE None,
                IF counted /\ server.count = "total"
                THEN [kind |-> "int", value |-> 3] ELSE None,
                None))

\* the @tool validate_soql_tool
ValidateSoql(server) ==
    /\ pc = "call"
    /\ frame.op = "validate_soql_tool"
    /\ frame' = [frame EXCEPT !.server = server]
    /\ raised' = validate_soql_tool(frame.soql, server).raised
    /\ result' = validate_soql_tool(frame.soql, server).result
    /\ pc' = "returned"
    /\ UNCHANGED graph_vars

ValidateSoqlFrames ==
    {[op |-> "validate_soql_tool", soql |-> q, server |-> "none"] :
        q \in Soqls}

\* largest number of records the Salesforce server puts in one batch
MaxBatch == 2

\* largest max_rows a caller of execute_soql_tool passes
MaxRowsArg == 3

\* the answers of sf.query and sf.query_more: a batch of any size with the
\* flags done and nextRecordsUrl, or an exception
Batches ==
    [raised : {"none"}, records : 0..MaxBatch, done : BOOLEAN,
     nextRecordsUrl : BOOLEAN]
    \cup [raised : {"SalesforceMalformedRequest", "Exception"},
          records : {0}, done : {TRUE}, nextRecordsUrl : {FALSE}]

\* records.extend(recs): the rows are numbered in the order of arrival
extend(records, n) ==
    records \o [i \in 1..n |-> Len(records) + i]

\* final_soql: the LIMIT is appended unless the tool paginates or the query
\* has one
final_soql(soql, paginate) ==
    IF ~paginate /\ ~has_limit(soql)
    THEN rstrip(soql) \o <<" ", "LIMIT 2000">>
    ELSE rstrip(soql)

\* both except clauses of execute_soql_tool
soql_error(soql, e) ==
    [kind |-> "dict",
     value |-> [soql |-> soql,
                error |-> IF e = "SalesforceMalformedRequest"
                          THEN "MALFORMED_QUERY: ..." ELSE "str(e)"]]

\* first = sf.query(final_soql) and the locals total_size, records, done
execute_soql_query(first) ==
    /\ pc = "call"
    /\ frame.op = "execute_soql_tool"
    /\ IF first.raised # "none"
       THEN /\ result' = soql_error(frame.soql, first.raised)
            /\ pc' = "returned"
            /\ frame' = frame
       ELSE /\ frame' = [frame EXCEPT
                            !.records = extend(<<>>, first.records),
                            !.done = first.done,
                            !.first = first,
                            !.requests = 1]
            /\ pc' = IF frame.paginate /\ ~first.done THEN "while"
                     ELSE "return"
            /\ result' = result
    /\ UNCHANGED <<raised, graph_vars>>

\* one pass of `while not done and len(records) < int(max_rows)` that asks
\* the server: nxt = sf.query_more(next_url, True)
execute_soql_query_more(nxt) ==
    /\ pc = "while"
    /\ frame.op = "execute_soql_tool"
    /\ ~frame.done
    /\ Len(frame.records) < frame.max_rows
    /\ frame.first.nextRecordsUrl
    /\ IF nxt.raised # "none"
       THEN /\ result' = soql_error(frame.soql, nxt.raised)
            /\ pc' = "returned"
            /\ frame' = [frame EXCEPT !.requests = @ + 1]
       ELSE IF nxt.records = 0
       THEN /\ frame' = [frame EXCEPT !.done = TRUE, !.requests = @ + 1]
            /\ pc' = "return"
            /\ result' = result
       ELSE LET records == extend(frame.records, nxt.records)
            IN /\ frame' = [frame EXCEPT
                               !.records = records,
                               !.first = nxt,
                               !.done = IF Len(records) >= frame.max_rows
                                        THEN FALSE ELSE nxt.done,
                               !.requests = @ + 1]
               /\ pc' = "while"
               /\ result' = result
    /\ UNCHANGED <<raised, graph_vars>>

\* the loop ends (condition false, or no nextRecordsUrl) and the tool
\* returns the dict
execute_soql_return ==
    /\ frame.op = "execute_soql_tool"
    /\ \/ pc = "return"
       \/ /\ pc = "while"
          /\ \/ frame.done
             \/ Len(frame.records) >= frame.max_rows
             \/ ~frame.first.nextRecordsUrl
    /\ result' =
          [kind |-> "dict",
           value |-> [soql |-> final_soql(frame.soql, frame.paginate),
                      totalSize |-> "first.totalSize",
                      returned |-> Len(frame.records),
                      done |-> frame.done,
                      records |-> frame.records]]
    /\ pc' = "returned"
    /\ UNCHANGED <<frame, raised, graph_vars>>

ExecuteSoqlFrames ==
    {[op |-> "execute_soql_tool", soql |-> <<"SELECT Id FROM Account", " ">>,
      paginate |-> p, max_rows |-> m, records |-> <<>>, done |-> FALSE,
      first |-> None, requests |-> 0] :
        p \in BOOLEAN, m \in 1..MaxRowsArg}

\* page_size = 50 and max_limit = 100 of execute_jql_query, scaled down:
\* max_limit is two pages
page_size == 2
max_limit == 4

\* the pages jira.search_issues(jql, startAt=, maxResults=) may return: up to
\* maxResults issues, named by their position in the server's result
Pages(start_at, maxResults) ==
    {[i \in 1..n |-> start_at + i] : n \in 0..maxResults}

\* variant: the loop goes on until a page is empty
last_page_if_empty(page) == Len(page) = 0

\* `if len(page) < page_size: break`
last_page(page) == Len(page) < page_size

\* one pass of `while total_collected < max_limit`: the page request and the
\* for loop over the page, which stops at max_limit
execute_jql_search(page, fails) ==
    /\ pc \in {"call", "while"}
    /\ frame.op = "execute_jql_query"
    /\ frame.total_collected < max_limit
    /\ IF fails
       THEN /\ frame' = [frame EXCEPT !.requests = @ + 1]
            /\ raised' = "HTTPException"
            /\ pc' = "returned"
       ELSE LET remaining == max_limit - frame.total_collected
                taken == SubSeq(page, 1, Min({Len(page), remaining}))
            IN /\ frame' = [frame EXCEPT
                               !.results = @ \o taken,
                               !.total_collected = @ + Len(taken),
                               !.served = @ \o page,
                               !.start_at = IF last_page(page) THEN @
                                            ELSE @ + page_size,
                               !.requests = @ + 1]
               /\ raised' = raised
               /\ pc' = IF last_page(page) THEN "return" ELSE "while"
    /\ UNCHANGED <<result, graph_vars>>

\* the loop has ended: return results
execute_jql_return ==
    /\ frame.op = "execute_jql_query"
    /\ \/ pc = "return"
       \/ pc = "while" /\ frame.total_collected >= max_limit
    /\ result' = [kind |-> "list", value |-> frame.results]
    /\ pc' = "returned"
    /\ UNCHANGED <<frame, raised, graph_vars>>

ExecuteJqlFrames ==
    {[op |-> "execute_jql_query", jql |-> q, start_at |-> 0,
      total_collected |-> 0, results |-> <<>>, served |-> <<>>,
      requests |-> 0] : q \in Jqls}

\* longest owner_ids list handed to resolve_owner_names_tool
MaxOwnerIds == 3

\* _chunk(ids_subset, 200), scaled down
chunk_size == 2

\* owner ids by prefix: users (005...), groups and queues (00G...), others
UserIds == {"005A", "005B", "005C"}
GroupIds == {"00GQ"}
OtherIds == {"0XX1"}

\* the owner_ids lists of callers; "" is an empty id
OwnerIdLists ==
    UNION {[1..n -> UserIds \cup GroupIds \cup OtherIds \cup {""}] :
              n \in 0..MaxOwnerIds}

\* variant: the list is queried as it came, repetitions included
dict_fromkeys_all(ids) == ids

\* list(dict.fromkeys(ids)): the first occurrence of every id, in order
dict_fromkeys(ids) ==
    LET first == {i \in 1..Len(ids) : \A j \in 1..(i - 1) : ids[j] # ids[i]}
        pick[k \in 0..Len(ids)] ==
            IF k = 0 THEN <<>>
            ELSE IF k \in first THEN Append(pick[k - 1], ids[k])
            ELSE pick[k - 1]
    IN pick[Len(ids)]

\* _chunk(seq, n): the slices seq[i : i + n]
_chunk(seq, n) ==
    [k \in 1..((Len(seq) + n - 1) \div n) |->
        SubSeq(seq, (k - 1) * n + 1, Min({k * n, Len(seq)}))]

\* the queries of _query("User", user_ids) and
\* _query("Group", group_ids + other_ids), in the order they are sent
owner_queries(uniq) ==
    LET user_ids == SelectSeq(uniq, LAMBDA i : i \in UserIds)
        group_ids == SelectSeq(uniq, LAMBDA i : i \in GroupIds)
        other_ids == SelectSeq(uniq, LAMBDA i : i \notin UserIds
                                                 /\ i \notin GroupIds)
        users == _chunk(user_ids, chunk_size)
        groups == _chunk(group_ids \o other_ids, chunk_size)
    IN [k \in 1..Len(users) |-> [obj |-> "User", ids |-> users[k]]]
       \o [k \in 1..Len(groups) |-> [obj |-> "Group", ids |-> groups[k]]]

\* sf = get_sf_connection(), the filter of empty ids and the three lists
resolve_owner_names_start(login) ==
    /\ pc = "call"
    /\ frame.op = "resolve_owner_names_tool"
    /\ LET ids == SelectSeq(frame.owner_ids, LAMBDA i : i # "")
       IN IF login = "fails"
          THEN /\ raised' = "SalesforceAuthenticationFailed"
               /\ result' = result
               /\ pc' = "returned"
               /\ frame' = frame
          ELSE IF ids = <<>>
          THEN /\ raised' = raised
               /\ result' = [kind |-> "list", value |-> <<>>]
               /\ pc' = "returned"
               /\ frame' = frame
          ELSE /\ raised' = raised
               /\ result' = result
               /\ pc' = "query"
               /\ frame' = [frame EXCEPT
                               !.pending = owner_queries(dict_fromkeys(ids))]
    /\ UNCHANGED graph_vars

\* one sf.query of _query: the records found fill id_to_name, an exception
\* is passed over
resolve_owner_names_query(found, fails) ==
    /\ pc = "query"
    /\ frame.op = "resolve_owner_names_tool"
    /\ frame.pending # <<>>
    /\ frame' = [frame EXCEPT
                    !.pending = Tail(@),
                    !.queries = Append(@, Head(frame.pending)),
                    !.failed = IF fails THEN Append(@, Head(frame.pending))
                               ELSE @,
                    !.id_to_name =
                        IF fails THEN @
                        ELSE @ \cup {<<i, <<"Name of", i>>>> : i \in found}]
    /\ UNCHANGED <<pc, raised, result, graph_vars>>

\* id_to_name.get(orig)
name_of(id_to_name, orig) ==
    IF \E x \in id_to_name : x[1] = orig
    THEN [kind |-> "str",
          value |-> (CHOOSE x \in id_to_name : x[1] = orig)[2]]
    ELSE None

\* the loop over ids that builds out, and return out
resolve_owner_names_return ==
    /\ pc = "query"
    /\ frame.op = "resolve_owner_names_tool"
    /\ frame.pending = <<>>
    /\ LET ids == SelectSeq(frame.owner_ids, LAMBDA i : i # "")
       IN result' = [kind |-> "list",
                     value |-> [k \in 1..Len(ids) |->
                                  [id |-> ids[k],
                                   name |-> name_of(frame.id_to_name,
                                                    ids[k])]]]
    /\ pc' = "returned"
    /\ UNCHANGED <<frame, raised, graph_vars>>

ResolveOwnerFrames ==
    {[op |-> "resolve_owner_names_tool", owner_ids |-> ids, pending |-> <<>>,
      queries |-> <<>>, failed |-> <<>>, id_to_name |-> {}] :
        ids \in OwnerIdLists}

Frames ==
    GenerateJqlFrames \cup SoqlEntryFrames \cup CheckJqlFrames
    \cup ValidateSoqlFrames \cup ExecuteSoqlFrames \cup ExecuteJqlFrames
    \cup ResolveOwnerFrames

InitTools ==
    /\ frame \in Frames
    /\ pc = "call"
    /\ entry = "none"
    /\ messages = <<>>
    /\ step = 0
    /\ nextId = 1
    /\ sent = <<>>
    /\ invocations = 0
    /\ results = <<>>
    /\ finished = <<>>
    /\ routed = "none"
    /\ budget_hit = FALSE
    /\ handler_runs = {}
    /\ agent_output = NoOutput
    /\ concurrent = NoRuns
    /\ raised = "none"
    /\ result = NoResult

NextTools ==
    \/ \E env \in JqlEnvironments : generate_jql_from_input(env)
    \/ \E run \in SoqlRuns : call_agent_generate_soql_flags(run)
    \/ \E server \in {"counts", "rejects"} : CheckJql(server)
    \/ \E server \in SoqlServers : ValidateSoql(server)
    \/ \E first \in Batches : execute_soql_query(first)
    \/ \E nxt \in Batches : execute_soql_query_more(nxt)
    \/ execute_soql_return
    \/ /\ pc \in {"call", "while"}
       /\ frame.op = "execute_jql_query"
       /\ \E page \in Pages(frame.start_at,
                             Min({page_size,
                                  max_limit - frame.total_collected})) :
             \E fails \in BOOLEAN : execute_jql_search(page, fails)
    \/ execute_jql_return
    \/ \E login \in {"ok", "fails"} : resolve_owner_names_start(login)
    \/ /\ pc = "query"
       /\ frame.op = "resolve_owner_names_tool"
       /\ frame.pending # <<>>
       /\ \E found \in SUBSET {Head(frame.pending).ids[k] :
                                k \in 1..Len(Head(frame.pending).ids)} :
             \E fails \in BOOLEAN : resolve_owner_names_query(found, fails)
    \/ resolve_owner_names_return

SpecTools == InitTools /\ [][NextTools]_vars

\* the steps of execute_jql_query
JqlPaging ==
    \/ /\ pc \in {"call", "while"}
       /\ frame.op = "execute_jql_query"
       /\ \E page \in Pages(frame.start_at,
                             Min({page_size,
                                  max_limit - frame.total_collected})) :
             \E fails \in BOOLEAN : execute_jql_search(page, fails)
    \/ execute_jql_return

\* the steps of execute_soql_tool
SoqlPaging ==
    \/ \E first \in Batches : execute_soql_query(first)
    \/ \E nxt \in Batches : execute_soql_query_more(nxt)
    \/ execute_soql_return

\* a paging tool runs on: every request to the server is answered or fails,
\* and the tool takes its next step
FairSpecTools == SpecTools /\ WF_vars(JqlPaging) /\ WF_vars(SoqlPaging)

----------------------------------------------------------------------------
(* Properties *)

IsPrefix(a, b) == Len(a) <= Len(b) /\ SubSeq(b, 1, Len(a)) = a

IsAIWithCalls(m) == m.type = "ai" /\ Len(m.tool_calls) >= 1

\* the number of ToolMessages of msgs that answer the tool call id
Answers(msgs, id) ==
    Cardinality({j \in 1..Len(msgs) :
                   msgs[j].type = "tool" /\ msgs[j].tool_call_id = id})

\* the ToolMessages of the validation tool, in conversation order
Validations(msgs) ==
    SelectSeq(msgs, LAMBDA m : m.type = "tool" /\ m.name = ValidationTool(entry))

\* C1: for every AIMessage with N >= 1 tool calls whose tools step has run
\* (it is no longer the last message), the N messages directly after it are
\* ToolMessages, the i-th with the id of the i-th tool call, and the message
\* after them is not a ToolMessage; the order in which the handlers ended
\* does not matter.
C1_ToolResultsInCallOrder ==
    \A k \in 1..Len(messages) :
        (IsAIWithCalls(messages[k]) /\ k < Len(messages)) =>
            LET calls == messages[k].tool_calls
                N == Len(calls)
            IN /\ k + N <= Len(messages)
               /\ \A i \in 1..N :
                     /\ messages[k + i].type = "tool"
                     /\ messages[k + i].tool_call_id = calls[i].id
               /\ (k + N < Len(messages) => messages[k + N + 1].type # "tool")

\* a tools step with two calls has run whose second handler ended first
C1_Witness ==
    /\ pc = "bot_manager"
    /\ finished = <<2, 1>>
    /\ Len(messages) >= 3
    /\ IsAIWithCalls(messages[Len(messages) - 2])
    /\ messages[Len(messages)].type = "tool"
    /\ messages[Len(messages)].tool_call_id =
          messages[Len(messages) - 2].tool_calls[2].id

\* C2: in the message list of every model invocation, every tool call id of
\* every AIMessage has exactly one ToolMessage with that tool_call_id.
C2_CallsAnsweredOnceWhenInvoking ==
    \A k \in 1..Len(sent) :
        sent[k].type = "ai" =>
            \A i \in 1..Len(sent[k].tool_calls) :
                Answers(sent, sent[k].tool_calls[i].id) = 1

\* the model has been invoked on a conversation that holds an AIMessage with
\* two tool calls, one of them for an unknown tool
C2_Witness ==
    /\ invocations >= 2
    /\ \E k \in 1..Len(sent) :
          /\ sent[k].type = "ai"
          /\ Len(sent[k].tool_calls) = 2
          /\ \E i \in 1..2 : sent[k].tool_calls[i].name = "frobnicate"

\* C3: route_tools returns "tools" if and only if the last message is an
\* AIMessage with one or more tool calls, and END for every other last
\* message, whatever the earlier messages are.
C3_RouteOnLastMessageOnly ==
    pc = "routed" =>
        routed = IF IsAIWithCalls(messages[Len(messages)]) THEN "tools" ELSE END

\* route_tools has answered END for a ToolMessage that follows an AIMessage
\* with tool calls
C3_Witness ==
    /\ pc = "routed"
    /\ routed = END
    /\ Len(messages) >= 2
    /\ messages[Len(messages)].type = "tool"
    /\ IsAIWithCalls(messages[1])

SystemFirst(msgs) ==
    /\ Cardinality({i \in 1..Len(msgs) : msgs[i].type = "system"}) = 1
    /\ msgs[1].type = "system"

C6_OneSystemMessageFirst ==
    (entry \in {"jql", "soql"} /\ invocations >= 1) =>
        (SystemFirst(messages) /\ SystemFirst(sent))

\* C7: every step leaves the messages that were in the conversation in
\* place, unchanged and in the same order; it only adds messages after them.
C7_AppendOnly == [][IsPrefix(messages, messages')]_vars

\* a bot_manager step, a tools step and a second bot_manager step have run
C7_Witness ==
    /\ step >= 3
    /\ Len(messages) >= 5
    /\ HasSystem(messages)

\* C8: a tool call for a name that is not registered is answered by a
\* ToolMessage status="error" with its id, the other calls of the same
\* AIMessage are answered too, no exception leaves the tools step, and the
\* next step is the model invocation of bot_manager (which may itself fail).
C8_UnknownToolIsAnsweredWithError ==
    /\ pc # "tool_error" /\ raised # "ToolException"
    /\ \A k \in 1..Len(messages) :
          LET calls == messages[k].tool_calls
              N == Len(calls)
          IN (/\ messages[k].type = "ai"
              /\ k < Len(messages)
              /\ \E i \in 1..N : calls[i].name \notin tools(entry)) =>
                /\ k + N <= Len(messages)
                /\ \A i \in 1..N :
                      /\ messages[k + i].type = "tool"
                      /\ messages[k + i].tool_call_id = calls[i].id
                      /\ calls[i].name \notin tools(entry) =>
                            messages[k + i].status = "error"
                /\ (k + N = Len(messages) =>
                       \/ pc = "bot_manager"
                       \/ pc = "invoker_error" \/ raised = "InvokerError")

\* the model has been invoked again after a tools step that answered a call
\* of the unknown tool and a call of a registered tool
C8_Witness ==
    /\ invocations >= 2
    /\ \E j \in 1..Len(messages) :
          /\ messages[j].type = "tool"
          /\ messages[j].name = "frobnicate"
          /\ messages[j].status = "error"
    /\ \E j \in 1..Len(messages) :
          /\ messages[j].type = "tool"
          /\ messages[j].name # "frobnicate"
          /\ messages[j].status = "success"

\* C9: when the tools step ends, every call whose arguments did not validate
\* or whose handler raised has a ToolMessage status="error" with its id in
\* the conversation, no exception leaves the step and the run goes on with
\* bot_manager.
C9_ToolFailuresBecomeErrorResults ==
    [][(pc = "tools" /\ pc' # "tools") =>
          /\ pc' = "bot_manager"
          /\ raised' = "none"
          /\ Len(messages') = Len(messages) + Len(results)
          /\ \A i \in 1..Len(results) :
                results[i] \in {"invalid_args", "raise"} =>
                    /\ messages'[Len(messages) + i].type = "tool"
                    /\ messages'[Len(messages) + i].tool_call_id =
                          messages[Len(messages)].tool_calls[i].id
                    /\ messages'[Len(messages) + i].status = "error"]_vars

\* the model has been invoked again after a handler raised and after
\* arguments did not validate
C9_Witness ==
    /\ invocations >= 2
    /\ \E j \in 1..Len(messages) :
          messages[j].type = "tool" /\ messages[j].content = "raise"
                                    /\ messages[j].status = "error"
    /\ \E j \in 1..Len(messages) :
          messages[j].type = "tool" /\ messages[j].content = "invalid_args"
                                    /\ messages[j].status = "error"

\* C10: after the validation tool has reported a failure, at most one more
\* validation is performed in the run, and a run in which two validations
\* failed ends with an empty query and a comment.
C10_AtMostOneRevalidation ==
    LET v == Validations(messages)
    IN /\ \A p \in 1..Len(v) : v[p].content = "error_value" => Len(v) <= p + 1
       /\ (/\ pc = "END"
           /\ Cardinality({p \in 1..Len(v) : v[p].content = "error_value"}) >= 2)
          => last_ai(messages).content = "fenced_json_empty"

\* C11: when a run ends normally, the last message of the conversation is an
\* AIMessage without tool calls, and the value the entry point returns is
\* taken from that message: its content (SOQL agent), the JSON decoded from
\* its content (supervisor), the final state that ends with it (JQL agent).
C11_ResultFromFinalAssistantMessage ==
    LET m == messages[Len(messages)]
    IN /\ pc = "END" => (m.type = "ai" /\ m.tool_calls = <<>>)
       /\ (pc = "returned" /\ raised = "none") =>
             /\ m.type = "ai" /\ m.tool_calls = <<>>
             /\ entry = "soql" => result = [kind |-> "content",
                                            value |-> m.content]
             /\ entry = "supervisor" => result = parse_final(m.content)
             /\ entry = "jql" =>
                   /\ result.kind = "state"
                   /\ result.value[Len(result.value)] = m

\* the SOQL agent has returned the final answer of a run in which an earlier
\* AIMessage asked for tools and ToolMessages were appended
C11_Witness ==
    /\ pc = "returned"
    /\ entry = "soql"
    /\ raised = "none"
    /\ result = [kind |-> "content", value |-> "fenced_json_query"]
    /\ \E k \in 1..Len(messages) : IsAIWithCalls(messages[k])
    /\ \E k \in 1..Len(messages) : messages[k].type = "tool"

\* C17: when the model call of a bot_manager step has failed, the only step
\* of the run is the entry point ending with that error: the model is not
\* invoked again, no handler runs, no message is added and no value is
\* returned.
C17_ModelFailureEndsTheRun ==
    [][pc = "invoker_error" =>
          /\ pc' = "returned"
          /\ raised' = "InvokerError"
          /\ result' = NoResult
          /\ invocations' = invocations
          /\ messages' = messages
          /\ results' = results /\ finished' = finished]_vars

\* the entry point has ended with the error of a model call that failed in
\* the second invocation, after a tools step
C17_Witness ==
    /\ pc = "returned"
    /\ raised = "InvokerError"
    /\ result = NoResult
    /\ invocations = 2
    /\ messages[Len(messages)].type = "tool"

\* the tool calls of the AIMessages of msgs
CallsOf(msgs) ==
    UNION {{msgs[k].tool_calls[i] : i \in 1..Len(msgs[k].tool_calls)} :
             k \in 1..Len(msgs)}

Runs(id) == Executions(handler_runs, id)

\* C16: the tool function of a tool call is executed at most once per
\* tool-call id, also when it raised; every call that is answered by a
\* ToolMessage carrying the function's value or its exception was executed
\* exactly once, a call of an unknown tool or with invalid arguments not at
\* all, and executions are counted for ids of emitted tool calls only.
C16_OneHandlerInvocationPerCall ==
    /\ \A x \in handler_runs :
          /\ Runs(x[1]) = 1
          /\ \E c \in CallsOf(messages) : c.id = x[1]
    /\ \A j \in 1..Len(messages) :
          messages[j].type = "tool" =>
              Runs(messages[j].tool_call_id) =
                  IF messages[j].content \in {"unknown_tool", "invalid_args"}
                  THEN 0 ELSE 1

\* the model has been invoked again after a tool function raised, and has
\* then emitted a new call of the same tool, which was executed once too
C16_Witness ==
    \E j, k \in 1..Len(messages) :
        /\ j < k
        /\ messages[j].type = "tool" /\ messages[j].content = "raise"
        /\ messages[k].type = "tool" /\ messages[k].name = messages[j].name
        /\ messages[k].tool_call_id # messages[j].tool_call_id
        /\ Runs(messages[j].tool_call_id) = 1
        /\ Runs(messages[k].tool_call_id) = 1

SomeHandlerHangs == \E i \in 1..Len(results) : results[i] = "hung"

\* C18: a run in which every model call and every tool function returns (or
\* raises) never executes more than RecursionLimit supersteps and eventually
\* ends: the graph reaches END or the step budget, or the model call fails,
\* and the entry point returns; it does not alternate between bot_manager
\* and tools forever.
C18_RunEventuallyEnds ==
    /\ [](step <= RecursionLimit)
    /\ [](pc = "returned" =>
            (raised = "none" \/ budget_hit \/ raised = "InvokerError"))
    /\ <>(pc = "returned" \/ SomeHandlerHangs)

\* a run that used every superstep of the budget, asking for tools in every
\* invocation but the last, has ended normally
C18_Witness ==
    /\ pc = "returned"
    /\ entry = "jql"
    /\ raised = "none"
    /\ step = RecursionLimit
    /\ invocations = MaxToolRounds + 1

\* C19: a run does not stay in the tools step forever when a tool function
\* does not return: the call is timed out and the step ends.
C19_DispatchingAlwaysEnds == (pc = "tools") ~> (pc # "tools")

\* C14: when the run of the supervisor ended with a final AIMessage that
\* holds no decodable JSON object, the entry point ends with an
\* ExtractionError and returns no value, in particular not None.
C14_NoJsonIsAnExtractionError ==
    (/\ pc = "returned"
     /\ entry = "supervisor"
     /\ messages[Len(messages)].type = "ai"
     /\ messages[Len(messages)].content = "prose") =>
        (raised = "ExtractionError" /\ result = NoResult)

\* C15: every call of the entry points of the SOQL agent and of the
\* supervisor ends in one of four outcomes that the caller can tell apart: a
\* decoded object, or one of the errors of the step budget, of the
\* extraction and of the model call, without a value.
C15_FourDistinctOutcomes ==
    (pc = "returned" /\ entry \in {"soql", "supervisor"}) =>
        \/ raised = "none" /\ result.kind = "parsed"
        \/ /\ raised \in {"GraphRecursionError", "ExtractionError",
                          "InvokerError"}
           /\ result = NoResult

\* C12: for every JSON object O, the extraction returns O from the bare
\* serialisation of O, from the serialisation inside a ```json fenced block
\* and from the serialisation between prose.
C12_ExtractionRoundTrip ==
    pc = "extracted" =>
        /\ raised = "none"
        /\ result = [kind |-> "parsed", value |-> Obj(agent_output.obj)]

\* C13: the balanced-brace scan of the test helper, run on an object between
\* prose, yields exactly the serialisation of the object, whatever braces
\* the string values of the object hold.
C13_ScanSpansTheObject ==
    (pc = "extracted" /\ entry = "soql" /\ agent_output.wrapping = "prose") =>
        balanced_span(strip(agent_output.text)) = json_dumps(agent_output.obj)

MessagesOf(r) ==
    {concurrent.state[r].messages[i] :
        i \in 1..Len(concurrent.state[r].messages)}

C21_ReturnsTheObjectForTheRequest ==
    (frame.op = "generate_jql_from_input" /\ pc = "returned"
        /\ raised = "none")
    => /\ result # None
       /\ result.kind = "dict"
       /\ DOMAIN result.value = {"jql", "approx_query_results", "comment"}
       /\ result.value.jql = <<"jql for", frame.user_input>>
       /\ frame.prompted = frame.user_input

\* C22: call_agent_generate_soql returns the content of the last AIMessage
\* alone if and only if with_trace and return_state are both False; in every
\* other case it returns a dict with exactly the keys output, trace and
\* state, where output is that content, state is the final graph state if
\* return_state is True and None otherwise, and trace is the empty string if
\* with_trace is False
C22_ReturnShapeFollowsTheFlags ==
    (frame.op = "call_agent_generate_soql" /\ pc = "returned"
        /\ raised = "none")
    => LET content == last_ai(frame.final_state.messages).content
       IN /\ (result = [kind |-> "content", value |-> content])
                <=> (~frame.with_trace /\ ~frame.return_state)
          /\ (frame.with_trace \/ frame.return_state)
                => /\ result.kind = "dict"
                   /\ DOMAIN result.value = {"output", "trace", "state"}
                   /\ result.value.output = content
                   /\ result.value.state =
                         IF frame.return_state THEN frame.final_state
                         ELSE None
                   /\ (~frame.with_trace => result.value.trace = "")

\* a call with return_state alone has returned the dict after a run with a
\* tools step
C22_Witness ==
    /\ frame.op = "call_agent_generate_soql"
    /\ pc = "returned"
    /\ raised = "none"
    /\ frame.return_state
    /\ ~frame.with_trace
    /\ result.kind = "dict"
    /\ result.value.trace = ""
    /\ Len(frame.final_state.messages) = 5

\* the target system rejected a query of validate_soql_tool
SoqlRejected ==
    \/ frame.server.sample \in {"malformed", "error"}
    \/ /\ simple_match(frame.soql) /\ ~has_group_by(frame.soql)
       /\ frame.server.count \in {"malformed", "error"}

\* C23: check_jql and validate_soql_tool report a query that the target
\* system rejects as a returned value, not as an exception: check_jql
\* returns an object with error and the input jql, validate_soql_tool returns
\* an object with exactly the keys soql, valid, sample, count and error in
\* which valid is True if and only if error is None, and both echo the input
\* query unchanged
C23_RejectedQueryIsAReturnedValue ==
    /\ (frame.op = "check_jql" /\ pc = "returned")
       => /\ raised = "none"
          /\ result.kind = "dict"
          /\ result.value.jql = frame.jql
          /\ frame.server = "rejects"
                => DOMAIN result.value = {"error", "jql"}
    /\ (frame.op = "validate_soql_tool" /\ pc = "returned"
          /\ frame.server.login = "ok")
       => /\ raised = "none"
          /\ result.kind = "dict"
          /\ DOMAIN result.value =
                {"soql", "valid", "sample", "count", "error"}
          /\ result.value.valid <=> result.value.error = None
          /\ result.value.soql = frame.soql
          /\ SoqlRejected => ~result.value.valid

\* validate_soql_tool has returned the report of a rejected query that it
\* had sent with LIMIT 1 appended
C23_Witness ==
    /\ pc = "returned"
    /\ raised = "none"
    /\ frame.op = "validate_soql_tool"
    /\ SoqlRejected
    /\ test_query(frame.soql) # frame.soql
    /\ result.value.soql = frame.soql
    /\ result.value.error.kind = "str"

\* C24: with paginate=True, execute_soql_tool never returns more than
\* max_rows records, for every batch size the server uses
C24_PagingNeverExceedsMaxRows ==
    (frame.op = "execute_soql_tool" /\ pc = "returned" /\ frame.paginate
        /\ "records" \in DOMAIN result.value)
    => /\ result.value.returned <= frame.max_rows
       /\ Len(result.value.records) <= frame.max_rows

\* C25: execute_jql_query returns at most 100 issues (max_limit), in the
\* order the server returned them across pages, and its paging loop ends
\* after at most two page requests: no request is made after a page with
\* fewer than 50 issues (page_size) or after max_limit issues have been
\* collected, and the call ends
C25_AtMostTwoPagesInOrder ==
    /\ [](frame.op = "execute_jql_query"
            => /\ frame.requests <= 2
               /\ Len(frame.results) <= max_limit
               /\ frame.results =
                     SubSeq(frame.served, 1,
                            Min({Len(frame.served), max_limit}))
               /\ pc = "returned" /\ raised = "none"
                     => result.value = frame.results)
    /\ [][(frame.op = "execute_jql_query" /\ frame'.requests > frame.requests)
            => /\ frame.total_collected < max_limit
               /\ frame.requests > 0
                     => Len(frame.served) = frame.requests * page_size]_vars
    /\ (frame.op = "execute_jql_query") ~> (pc = "returned")

\* two full pages were requested and max_limit issues returned
C25_Witness ==
    /\ frame.op = "execute_jql_query"
    /\ pc = "returned"
    /\ raised = "none"
    /\ frame.requests = 2
    /\ result.value = <<1, 2, 3, 4>>

\* the number of times id stands in a query of resolve_owner_names_tool
TimesQueried(id) ==
    Cardinality({<<q, k>> \in (1..Len(frame.queries)) \X (1..chunk_size) :
                    /\ k <= Len(frame.queries[q].ids)
                    /\ frame.queries[q].ids[k] = id})

\* the ids for which a User or Group record came back
FoundIds == {x[1] : x \in frame.id_to_name}

\* C26: resolve_owner_names_tool returns exactly one {id, name} entry per
\* non-empty input id, in input order and with repeated ids repeated; an id
\* for which no User or Group record was found, or whose query failed, has
\* name None, and each distinct id is queried at most once
C26_OneEntryPerIdInOrder ==
    frame.op = "resolve_owner_names_tool"
    => LET ids == SelectSeq(frame.owner_ids, LAMBDA i : i # "")
       IN /\ \A i \in UserIds \cup GroupIds \cup OtherIds :
                TimesQueried(i) <= 1
          /\ (pc = "returned" /\ raised = "none")
                => /\ Len(result.value) = Len(ids)
                   /\ \A k \in 1..Len(ids) :
                         /\ DOMAIN result.value[k] = {"id", "name"}
                         /\ result.value[k].id = ids[k]
                         /\ ids[k] \notin FoundIds
                               => result.value[k].name = None
                         /\ (\E q \in 1..Len(frame.failed) :
                                \E j \in 1..Len(frame.failed[q].ids) :
                                   frame.failed[q].ids[j] = ids[k])
                               => result.value[k].name = None

\* a list with a repeated user id and an empty id between was resolved: the
\* id was queried once and stands twice in the result, with its name
C26_Witness ==
    /\ frame.op = "resolve_owner_names_tool"
    /\ pc = "returned"
    /\ raised = "none"
    /\ frame.owner_ids = <<"005A", "", "005A">>
    /\ Len(result.value) = 2
    /\ result.value[1] = result.value[2]
    /\ result.value[1].name # None
    /\ TimesQueried("005A") = 1

\* the tool calls of msgs, as positions <<message, call>>, that no
\* ToolMessage answers
Unanswered(msgs) ==
    {x \in (1..Len(msgs)) \X (1..MaxCalls) :
        /\ x[2] <= Len(msgs[x[1]].tool_calls)
        /\ Answers(msgs, msgs[x[1]].tool_calls[x[2]].id) = 0}

C28_StrategiesInFixedOrder ==
    pc = "extracted" =>
        /\ raised = "none"
        /\ result.kind = "parsed"
        /\ result.value = Obj(agent_output.obj)

\* C29: route_tools called on a conversation with zero messages (a state
\* whose messages list is empty or missing, or an empty list) raises an error
\* and returns neither "tools" nor END.
C29_NoMessagesIsAnError ==
    (frame.op = "route_tools" /\ pc # "call"
     /\ get_messages(frame.state) = <<>>) =>
        /\ pc = "raised"
        /\ raised \in {"IndexError", "ValueError"}
        /\ routed \notin {"tools", END}

\* route_tools has raised for a dict that has no "messages" key
C29_Witness ==
    /\ frame.op = "route_tools"
    /\ frame.state.form = "dict_without_messages"
    /\ pc = "raised"
    /\ raised = "ValueError"
    /\ routed = "none"

\* the messages the entry point puts in the state before the graph runs
Seeded(msgs) == Cardinality({i \in 1..Len(msgs) : msgs[i].type = "human"})

\* the tool calls whose tools step has ended: every call of the conversation
\* but those of an AIMessage that is still the last message
Dispatched(msgs) ==
    TotalCalls(msgs) - Len(msgs[Len(msgs)].tool_calls)

Ids(msgs) == {msgs[i].id : i \in 1..Len(msgs)}

\* bot_manager runs and every model invocation so far has returned
BotManagerRun ==
    /\ entry \in {"jql", "soql"}
    /\ pc \in {"bot_manager", "tools", "END", "out_of_steps"}

\* C30 as stated: the conversation holds each message once, and after k
\* model invocations its length is the seeded messages plus k AIMessages
\* plus one ToolMessage per dispatched tool call.
C30_LengthIsSeededPlusAssistantPlusToolResults ==
    BotManagerRun =>
        /\ Cardinality(Ids(messages)) = Len(messages)
        /\ Len(messages) =
              Seeded(messages) + invocations + Dispatched(messages)

\* C30 amended: no two entries of the conversation share a message id, and
\* once bot_manager has run the conversation also holds the one
\* SystemMessage bot_manager put in front of the history: its length after k
\* model invocations is the seeded messages plus that SystemMessage plus k
\* AIMessages plus one ToolMessage per dispatched tool call.
C30_EachMessageOnceWithTheSystemMessage ==
    BotManagerRun =>
        /\ Cardinality(Ids(messages)) = Len(messages)
        /\ NoId \notin Ids(messages)
        /\ Cardinality({i \in 1..Len(messages) :
                           messages[i].type = "system"})
              = (IF invocations > 0 THEN 1 ELSE 0)
        /\ Cardinality({i \in 1..Len(messages) :
                           messages[i].type = "ai"}) = invocations
        /\ Cardinality({i \in 1..Len(messages) :
                           messages[i].type = "tool"}) = Dispatched(messages)
        /\ Len(messages) =
              Seeded(messages) + (IF invocations > 0 THEN 1 ELSE 0)
              + invocations + Dispatched(messages)

\* bot_manager has run for the second time, after a tools step that answered
\* two tool calls: the history it returned was already in the state
C30_Witness ==
    /\ entry \in {"jql", "soql"}
    /\ pc \in {"tools", "END", "out_of_steps"}
    /\ invocations = 2
    /\ Dispatched(messages) = 2
    /\ Len(messages) = 6

====
